---- MODULE Spec2Model ----
(***************************************************************************)
(* Model of the lingo gateway core: the retry controller of ratelimit.go   *)
(* (newRateLimiter, Execute, calculateBackoff, isRateLimitError,           *)
(* extractRetryAfter) and the provider registry and gateway construction   *)
(* of gateway.go (RegisterProvider, New).                                  *)
(*                                                                         *)
(* Durations are whole numbers of milliseconds (time.Millisecond = 1).     *)
(* Error texts are sequences of one-character strings, so that the         *)
(* substring searches and the number scan of the source are computed       *)
(* character by character.                                                 *)
(***************************************************************************)
EXTENDS Integers, Sequences, FiniteSets, TLC

\* ------------------------------------------------------------------------
\* Bounds of the model
\* ------------------------------------------------------------------------

\* Largest MaxRetries a caller supplies (supplied values are -2..MaxRetriesBound).
MaxRetriesBound ==
    2

\* rand.Float64() is drawn from { k / RandDen : k \in 0..RandDen-1 }.
RandDen ==
    4

\* Longest configuration list handed to New.
MaxConfigs ==
    3

\* Number of threads that call one gateway concurrently.
NumThreads ==
    2

\* Number of concurrent Execute calls on one retry controller.
NumCalls ==
    2

\* Largest number of calls made on one gateway.
MaxOps ==
    3

\* ------------------------------------------------------------------------
\* Program constants
\* ------------------------------------------------------------------------

Millisecond ==
    1

Second ==
    1000

\* ------------------------------------------------------------------------
\* Strings: strings.ToLower, strings.Index, strings.Contains
\* ------------------------------------------------------------------------

UpperChars ==
    <<"A", "B", "C", "D", "E", "F", "G", "H", "I", "J", "K", "L", "M",
      "N", "O", "P", "Q", "R", "S", "T", "U", "V", "W", "X", "Y", "Z">>

LowerChars ==
    <<"a", "b", "c", "d", "e", "f", "g", "h", "i", "j", "k", "l", "m",
      "n", "o", "p", "q", "r", "s", "t", "u", "v", "w", "x", "y", "z">>

DigitChars ==
    <<"0", "1", "2", "3", "4", "5", "6", "7", "8", "9">>

ToLowerChar(c) ==
    IF \E i \in 1..26 : UpperChars[i] = c
    THEN LowerChars[CHOOSE i \in 1..26 : UpperChars[i] = c]
    ELSE c

ToLower(s) ==
    [i \in 1..Len(s) |-> ToLowerChar(s[i])]

\* TRUE iff sub occurs in s at the 0-based byte offset idx.
MatchAt(s, sub, idx) ==
    /\ idx + Len(sub) <= Len(s)
    /\ \A j \in 1..Len(sub) : s[idx + j] = sub[j]

\* The first offset >= idx at which sub occurs in s, -1 if none.
RECURSIVE IndexFrom(_, _, _)
IndexFrom(s, sub, idx) ==
    IF idx + Len(sub) > Len(s) THEN -1
    ELSE IF MatchAt(s, sub, idx) THEN idx
    ELSE IndexFrom(s, sub, idx + 1)

\* strings.Index: 0-based offset of the first occurrence of sub in s, -1 if none.
Index(s, sub) ==
    IndexFrom(s, sub, 0)

Contains(s, sub) ==
    Index(s, sub) >= 0

\* ------------------------------------------------------------------------
\* Error values
\* ------------------------------------------------------------------------

\* Texts of the errors the wrapped operation can return.
TxtTooMany ==
    <<"4", "2", "9", " ", "t", "o", "o", " ", "m", "a", "n", "y", " ", "r", "e", "q", "u", "e", "s", "t", "s">>
TxtBadKey ==
    <<"i", "n", "v", "a", "l", "i", "d", " ", "a", "p", "i", " ", "k", "e", "y">>
TxtAfter2 ==
    <<"R", "a", "t", "e", " ", "L", "i", "m", "i", "t", " ", "e", "x", "c", "e", "e", "d", "e", "d", ",", " ", "r", "e", "t", "r", "y", " ", "a", "f", "t", "e", "r", " ", "2", " ", "s", "e", "c", "o", "n", "d", "s">>
TxtMs1500 ==
    <<"4", "2", "9", " ", "r", "e", "t", "r", "y", "_", "a", "f", "t", "e", "r", "_", "m", "s", "=", "1", "5", "0", "0">>
TxtHdr1 ==
    <<"o", "v", "e", "r", "l", "o", "a", "d", "e", "d", ":", " ", "R", "e", "t", "r", "y", "-", "A", "f", "t", "e", "r", ":", " ", "1">>
TxtEq1p5 ==
    <<"t", "h", "r", "o", "t", "t", "l", "e", "d", " ", "r", "e", "t", "r", "y", "_", "a", "f", "t", "e", "r", "=", "1", ".", "5">>
TxtAfter0p5 ==
    <<"q", "u", "o", "t", "a", " ", "e", "x", "c", "e", "e", "d", "e", "d", " ", "r", "e", "t", "r", "y", " ", "a", "f", "t", "e", "r", " ", "0", ".", "5", "s">>
TxtAfterSoon ==
    <<"c", "a", "p", "a", "c", "i", "t", "y", " ", "r", "e", "a", "c", "h", "e", "d", ",", " ", "r", "e", "t", "r", "y", " ", "a", "f", "t", "e", "r", " ", "a", " ", "w", "h", "i", "l", "e">>
TxtPermHint ==
    <<"b", "a", "d", " ", "r", "e", "q", "u", "e", "s", "t", ",", " ", "r", "e", "t", "r", "y", " ", "a", "f", "t", "e", "r", " ", "2", " ", "s", "e", "c", "o", "n", "d", "s">>
TxtBadNum ==
    <<"r", "a", "t", "e", "l", "i", "m", "i", "t", " ", "r", "e", "t", "r", "y", " ", "a", "f", "t", "e", "r", " ", "1", ".", "2", ".", "3">>
TxtTwoPats ==
    <<"4", "2", "9", " ", "R", "e", "t", "r", "y", "-", "A", "f", "t", "e", "r", ":", " ", "s", "o", "o", "n", ";", " ", "r", "e", "t", "r", "y", "_", "a", "f", "t", "e", "r", "_", "m", "s", "=", "2", "5", "0">>

\* APIError.Error() for a 429 response of the Perplexity API.
TxtPplx429 ==
    <<"p", "e", "r", "p", "l", "e", "x", "i", "t", "y", " ", "A", "P", "I", " ", "e", "r", "r", "o", "r", " ", "(", "s", "t", "a", "t", "u", "s", " ", "4", "2", "9", ")", ":", " ", "s", "l", "o", "w", " ", "d", "o", "w", "n">>

\* APIError.Error() for a 401 response of the Perplexity API.
TxtPplx401 ==
    <<"p", "e", "r", "p", "l", "e", "x", "i", "t", "y", " ", "A", "P", "I", " ", "e", "r", "r", "o", "r", " ", "(", "s", "t", "a", "t", "u", "s", " ", "4", "0", "1", ")", ":", " ", "b", "a", "d", " ", "k", "e", "y">>

\* Text of context.Canceled.
TxtCanceled ==
    <<"c", "o", "n", "t", "e", "x", "t", " ", "c", "a", "n", "c", "e", "l", "e", "d">>

ErrTexts ==
    <<TxtTooMany, TxtBadKey, TxtAfter2, TxtMs1500, TxtHdr1, TxtEq1p5,
      TxtAfter0p5, TxtAfterSoon, TxtPermHint, TxtBadNum, TxtTwoPats,
      TxtPplx429, TxtPplx401, TxtCanceled>>

\* Indexes into ErrTexts of the texts of the operation's errors.
OpMsgs ==
    1..(Len(ErrTexts) - 1)

\* An error value: kind "nil" is the nil error, "ctx" is ctx.Err(), "op" is an
\* error returned by the operation; msg indexes ErrTexts and id tells apart
\* the error objects of different invocations.
NilErr ==
    [kind |-> "nil", msg |-> 0, id |-> 0]

CtxErr ==
    [kind |-> "ctx", msg |-> Len(ErrTexts), id |-> 0]

OpErr(m, i) ==
    [kind |-> "op", msg |-> m, id |-> i]


\* ------------------------------------------------------------------------
\* isRateLimitError
\* ------------------------------------------------------------------------

IndRateLimit ==
    <<"r", "a", "t", "e", " ", "l", "i", "m", "i", "t">>
IndRate_Limit ==
    <<"r", "a", "t", "e", "_", "l", "i", "m", "i", "t">>
IndRatelimit ==
    <<"r", "a", "t", "e", "l", "i", "m", "i", "t">>
IndTooMany ==
    <<"t", "o", "o", " ", "m", "a", "n", "y", " ", "r", "e", "q", "u", "e", "s", "t", "s">>
Ind429 ==
    <<"4", "2", "9">>
IndQuotaExceeded ==
    <<"q", "u", "o", "t", "a", " ", "e", "x", "c", "e", "e", "d", "e", "d">>
IndQuota_Exceeded ==
    <<"q", "u", "o", "t", "a", "_", "e", "x", "c", "e", "e", "d", "e", "d">>
IndOverloaded ==
    <<"o", "v", "e", "r", "l", "o", "a", "d", "e", "d">>
IndCapacity ==
    <<"c", "a", "p", "a", "c", "i", "t", "y">>
IndThrottl ==
    <<"t", "h", "r", "o", "t", "t", "l">>

rateLimitIndicators ==
    <<IndRateLimit, IndRate_Limit, IndRatelimit, IndTooMany, Ind429,
      IndQuotaExceeded, IndQuota_Exceeded, IndOverloaded, IndCapacity,
      IndThrottl>>

isRateLimitError_all(err) ==
    err.kind # "nil"

\* The loop over rateLimitIndicators on the error's text.
hasRateLimitIndicator(text) ==
    LET errStr == ToLower(text)
    IN  \E i \in 1..Len(rateLimitIndicators) :
            Contains(errStr, rateLimitIndicators[i])

isRateLimitError(err) ==
    IF err.kind = "nil" THEN FALSE
    ELSE hasRateLimitIndicator(ErrTexts[err.msg])

\* ------------------------------------------------------------------------
\* extractRetryAfter
\* ------------------------------------------------------------------------

PatRetryAfterSp ==
    <<"r", "e", "t", "r", "y", " ", "a", "f", "t", "e", "r", " ">>
PatRetryAfterHdr ==
    <<"r", "e", "t", "r", "y", "-", "a", "f", "t", "e", "r", ":", " ">>
PatRetryAfterEq ==
    <<"r", "e", "t", "r", "y", "_", "a", "f", "t", "e", "r", "=">>
PatRetryAfterMs ==
    <<"r", "e", "t", "r", "y", "_", "a", "f", "t", "e", "r", "_", "m", "s", "=">>

patterns ==
    <<PatRetryAfterSp, PatRetryAfterHdr, PatRetryAfterEq, PatRetryAfterMs>>

IsDigit(c) ==
    \E i \in 1..10 : DigitChars[i] = c

DigitVal(c) ==
    (CHOOSE i \in 1..10 : DigitChars[i] = c) - 1

\* The loop "for end < len(errStr) && (digit || '.')": the 0-based end offset
\* of the run of digits and dots that starts at offset start.
RECURSIVE ScanEnd(_, _)
ScanEnd(s, end) ==
    IF end < Len(s) /\ (IsDigit(s[end + 1]) \/ s[end + 1] = ".")
    THEN ScanEnd(s, end + 1)
    ELSE end

\* Value of a sequence of decimal digits (0 for the empty sequence).
RECURSIVE DigitsVal(_)
DigitsVal(ds) ==
    IF ds = <<>> THEN 0
    ELSE 10 * DigitsVal(SubSeq(ds, 1, Len(ds) - 1)) + DigitVal(ds[Len(ds)])

RECURSIVE Pow10(_)
Pow10(n) ==
    IF n = 0 THEN 1 ELSE 10 * Pow10(n - 1)

\* strconv.ParseFloat on a run of digits and dots: the value num/den, or a
\* parse error when the run has no digit or more than one dot.
ParseFloat(t) ==
    LET dots == {i \in 1..Len(t) : t[i] = "."}
    IN  IF Cardinality(dots) > 1 \/ Cardinality(dots) = Len(t)
        THEN [ok |-> FALSE, num |-> 0, den |-> 1]
        ELSE IF dots = {}
        THEN [ok |-> TRUE, num |-> DigitsVal(t), den |-> 1]
        ELSE LET d == CHOOSE i \in dots : TRUE
                 frac == SubSeq(t, d + 1, Len(t))
             IN  [ok |-> TRUE,
                  num |-> DigitsVal(SubSeq(t, 1, d - 1)) * Pow10(Len(frac))
                          + DigitsVal(frac),
                  den |-> Pow10(Len(frac))]

\* Conversion of the float num/den to an integer type: truncation toward zero.
Trunc(num, den) ==
    IF num >= 0 THEN num \div den ELSE -((-num) \div den)

\* time.Duration(val): the float val = num/den converted to int64.
DurationOfFloat(val) ==
    Trunc(val.num, val.den)

\* The body of the loop over patterns, from pattern number p on.
RECURSIVE extractFrom(_, _)
extractFrom(errStr, p) ==
    IF p > Len(patterns) THEN 0
    ELSE LET pattern == patterns[p]
             idx     == Index(ToLower(errStr), pattern)
             start   == idx + Len(pattern)
             end     == ScanEnd(errStr, start)
             val     == ParseFloat(SubSeq(errStr, start + 1, end))
         IN  IF idx = -1 THEN extractFrom(errStr, p + 1)
             ELSE IF end > start /\ val.ok
             THEN IF Contains(pattern, <<"m", "s">>)
                  THEN DurationOfFloat(val) * Millisecond
                  ELSE DurationOfFloat(val) * Second
             ELSE extractFrom(errStr, p + 1)

extractRetryAfter(err) ==
    IF err.kind = "nil" THEN 0
    ELSE extractFrom(ErrTexts[err.msg], 1)

\* ------------------------------------------------------------------------
\* calculateBackoff
\* ------------------------------------------------------------------------

\* The values rand.Float64() is drawn from are k / RandDen, k \in RandDraws.
RandDraws ==
    0..(RandDen - 1)

\* A jitter of half the base backoff instead of a quarter.
Jitter_half(baseBackoff, k) ==
    Trunc(baseBackoff * (2 * k - RandDen), 2 * RandDen)

\* float64(baseBackoff) * 0.25 * (rand.Float64()*2 - 1), rand.Float64() = k/RandDen,
\* converted to time.Duration.
Jitter(baseBackoff, k) ==
    Trunc(baseBackoff * (2 * k - RandDen), 4 * RandDen)

calculateBackoff(baseBackoff, err, k) ==
    LET retryAfter == extractRetryAfter(err)
    IN  IF retryAfter > 0 THEN retryAfter
        ELSE baseBackoff + Jitter(baseBackoff, k)

\* ------------------------------------------------------------------------
\* RateLimitConfig, DefaultRateLimitConfig, newRateLimiter
\* ------------------------------------------------------------------------

\* BackoffMultiplier is the float num/den.
Mult(n, d) ==
    [num |-> n, den |-> d]

RateLimitConfig(mr, ib, mb, mult) ==
    [isNil |-> FALSE, MaxRetries |-> mr, InitialBackoff |-> ib,
     MaxBackoff |-> mb, BackoffMultiplier |-> mult]

\* A nil *RateLimitConfig.
NilConfig ==
    [isNil |-> TRUE, MaxRetries |-> 0, InitialBackoff |-> 0,
     MaxBackoff |-> 0, BackoffMultiplier |-> Mult(0, 1)]

DefaultRateLimitConfig ==
    RateLimitConfig(3, 1 * Second, 60 * Second, Mult(2, 1))

\* Defaults that are applied to a nil configuration only.
newRateLimiter_nilOnly(config) ==
    IF config.isNil THEN DefaultRateLimitConfig ELSE config

\* The configuration object the rateLimiter holds after newRateLimiter(config).
newRateLimiter(config) ==
    LET c0 == IF config.isNil THEN DefaultRateLimitConfig ELSE config
        c1 == IF c0.MaxRetries = 0 THEN [c0 EXCEPT !.MaxRetries = 3] ELSE c0
        c2 == IF c1.InitialBackoff = 0
              THEN [c1 EXCEPT !.InitialBackoff = 1 * Second] ELSE c1
        c3 == IF c2.MaxBackoff = 0
              THEN [c2 EXCEPT !.MaxBackoff = 60 * Second] ELSE c2
    IN  IF c3.BackoffMultiplier.num = 0
        THEN [c3 EXCEPT !.BackoffMultiplier = Mult(2, 1)] ELSE c3

\* The object the caller's pointer designates after newRateLimiter(config):
\* config is a pointer that newRateLimiter writes through and stores in the
\* controller (config: config), so a non-nil supplied configuration and the
\* controller's configuration are one object.
CallerConfig(config, held) ==
    IF config.isNil THEN config ELSE held

\* (InitialBackoff, MaxBackoff, BackoffMultiplier) triples callers supply.
BackoffInputs ==
    { <<0, 0, Mult(0, 1)>>,      \* all left at zero: the defaults
      <<1, 10, Mult(3, 1)>>,
      <<20, 10, Mult(2, 1)>>,    \* InitialBackoff above MaxBackoff
      <<8, 100, Mult(1, 2)>> }   \* multiplier below one

\* Configurations callers hand to newRateLimiter.
ConfigInputs ==
    {NilConfig}
    \cup { RateLimitConfig(mr, 0, 0, Mult(0, 1)) : mr \in (-2)..MaxRetriesBound }
    \cup { RateLimitConfig(MaxRetriesBound, b[1], b[2], b[3]) : b \in BackoffInputs }

\* ------------------------------------------------------------------------
\* State
\* ------------------------------------------------------------------------

VARIABLES
    supplied,       \* the configuration value the caller wrote (nil or a struct)
    cfg,            \* the configuration object r.config points to
    ctxDone,        \* ctx.Done() is closed
    pc,             \* position of the Execute call
    attempt,        \* Execute's loop variable
    backoff,        \* Execute's local backoff
    lastErr,        \* Execute's local lastErr
    ret,            \* the value Execute returned
    invoked,        \* history: one record per invocation of fn
    waits,          \* history: one record per wait that was started
    cancelPc,       \* history: pc at the moment the context was cancelled
    callsAtCancel,  \* history: number of invocations at that moment
    providerFactories, \* the process-wide registry: provider type -> factory
    gpc,            \* position of the New call
    configs,        \* New's argument
    idx,            \* position of New's loop in configs
    providers,      \* g.providers: provider type -> adapter (0 when absent)
    adapters,       \* every adapter a factory has produced
    ctorCalls,      \* history: one record per factory invocation
    lookups,        \* history: one record per registry lookup made by New
    newRet,         \* what New returned
    cbErr,          \* calculateBackoff on its own: the err argument
    cbBase,         \* calculateBackoff on its own: the baseBackoff argument
    cbWait,         \* calculateBackoff on its own: the result (-1 before the call)
    genCalls,       \* history: Generate invocations received by each adapter
    healthCalls,    \* history: Health invocations received by each adapter
    opCount,        \* number of calls made on the gateway
    closeReturns,   \* number of Gateway.Close calls that have returned
    lastOp,         \* the latest call on the gateway and what it returned
    e2e,            \* one Gateway.Generate call that reaches an adapter
    vendorLog,      \* history: the vendor's answer to each request of that call
    mu,             \* g.mu: the thread holding it for writing, the threads reading
    threads,        \* the position of each thread's call on the gateway
    mapAccess,      \* history: the latest access to g.providers
    execs           \* the locals of each concurrent Execute call

rlVars ==
    <<supplied, cfg, ctxDone, pc, attempt, backoff, lastErr, ret, invoked,
      waits, cancelPc, callsAtCancel>>

\* Number of invocations of the operation so far.
calls ==
    Len(invoked)

\* Indexes into ErrTexts of the errors the operation returns under Execute:
\* TxtTooMany, TxtBadKey, TxtMs1500, TxtEq1p5.
ExecMsgs ==
    {1, 2, 4, 6}

InitRateLimiter ==
    /\ supplied \in ConfigInputs
    /\ cfg = supplied
    /\ ctxDone = FALSE
    /\ pc = "new"
    /\ attempt = 0
    /\ backoff = 0
    /\ lastErr = NilErr
    /\ ret = NilErr
    /\ invoked = <<>>
    /\ waits = <<>>
    /\ cancelPc = "none"
    /\ callsAtCancel = 0

\* ------------------------------------------------------------------------
\* newRateLimiter and Execute, step by step
\* ------------------------------------------------------------------------

\* The adapter's constructor builds its retry controller.
Construct ==
    /\ pc = "new"
    /\ cfg' = newRateLimiter(supplied)
    /\ pc' = "idle"
    /\ UNCHANGED <<supplied, ctxDone, attempt, backoff, lastErr, ret, invoked,
                   waits, cancelPc, callsAtCancel>>

\* Entry of Execute: var lastErr error; backoff := r.config.InitialBackoff; attempt := 0.
ExecuteBegin ==
    /\ pc = "idle"
    /\ lastErr' = NilErr
    /\ backoff' = cfg.InitialBackoff
    /\ attempt' = 0
    /\ pc' = "loop"
    /\ UNCHANGED <<supplied, cfg, ctxDone, ret, invoked, waits, cancelPc,
                   callsAtCancel>>

\* The loop condition fails: return lastErr.
LoopExit ==
    /\ pc = "loop"
    /\ ~(attempt <= cfg.MaxRetries)
    /\ ret' = lastErr
    /\ pc' = "done"
    /\ UNCHANGED <<supplied, cfg, ctxDone, attempt, backoff, lastErr, invoked,
                   waits, cancelPc, callsAtCancel>>

\* A pre-attempt check that falls through to the invocation although the
\* context is done.
CtxCheckDone_skip ==
    /\ pc = "loop"
    /\ attempt <= cfg.MaxRetries
    /\ ctxDone
    /\ pc' = "call"
    /\ UNCHANGED <<supplied, cfg, ctxDone, attempt, backoff, lastErr, ret,
                   invoked, waits, cancelPc, callsAtCancel>>

\* select { case <-ctx.Done(): return ctx.Err() ... } before the attempt.
CtxCheckDone ==
    /\ pc = "loop"
    /\ attempt <= cfg.MaxRetries
    /\ ctxDone
    /\ ret' = CtxErr
    /\ pc' = "done"
    /\ UNCHANGED <<supplied, cfg, ctxDone, attempt, backoff, lastErr, invoked,
                   waits, cancelPc, callsAtCancel>>

\* select { ... default: } before the attempt.
CtxCheckDefault ==
    /\ pc = "loop"
    /\ attempt <= cfg.MaxRetries
    /\ ~ctxDone
    /\ pc' = "call"
    /\ UNCHANGED <<supplied, cfg, ctxDone, attempt, backoff, lastErr, ret,
                   invoked, waits, cancelPc, callsAtCancel>>

\* The history record of one invocation of fn.
Invocation(err) ==
    [attempt |-> attempt, err |-> err, waitsBefore |-> Len(waits)]

\* A successful invocation after which the loop goes on.
FnSuccess_continue ==
    /\ pc = "call"
    /\ invoked' = Append(invoked, Invocation(NilErr))
    /\ attempt' = attempt + 1
    /\ pc' = "loop"
    /\ UNCHANGED <<supplied, cfg, ctxDone, backoff, lastErr, ret, waits,
                   cancelPc, callsAtCancel>>

\* err := fn(); err == nil: return nil.
FnSuccess ==
    /\ pc = "call"
    /\ invoked' = Append(invoked, Invocation(NilErr))
    /\ ret' = NilErr
    /\ pc' = "done"
    /\ UNCHANGED <<supplied, cfg, ctxDone, attempt, backoff, lastErr, waits,
                   cancelPc, callsAtCancel>>

\* err := fn(); !isRateLimitError(err): return err.
FnPermanent(m) ==
    LET err == OpErr(m, calls + 1)
    IN  /\ pc = "call"
        /\ ~isRateLimitError(err)
        /\ invoked' = Append(invoked, Invocation(err))
        /\ lastErr' = err
        /\ ret' = err
        /\ pc' = "done"
        /\ UNCHANGED <<supplied, cfg, ctxDone, attempt, backoff, waits,
                       cancelPc, callsAtCancel>>

\* An exhaustion test that is off by one.
Exhausted_late(a, c) ==
    a > c.MaxRetries

\* if attempt >= r.config.MaxRetries
Exhausted(a, c) ==
    a >= c.MaxRetries

\* The exhausted branch returning a new error that wraps err.
FnExhausted_wrap(m) ==
    LET err == OpErr(m, calls + 1)
    IN  /\ pc = "call"
        /\ isRateLimitError(err)
        /\ Exhausted(attempt, cfg)
        /\ invoked' = Append(invoked, Invocation(err))
        /\ lastErr' = err
        /\ ret' = OpErr(m, 0)
        /\ pc' = "done"
        /\ UNCHANGED <<supplied, cfg, ctxDone, attempt, backoff, waits,
                       cancelPc, callsAtCancel>>

\* err := fn(); rate limit error and attempt >= MaxRetries: log, return err.
FnExhausted(m) ==
    LET err == OpErr(m, calls + 1)
    IN  /\ pc = "call"
        /\ isRateLimitError(err)
        /\ Exhausted(attempt, cfg)
        /\ invoked' = Append(invoked, Invocation(err))
        /\ lastErr' = err
        /\ ret' = err
        /\ pc' = "done"
        /\ UNCHANGED <<supplied, cfg, ctxDone, attempt, backoff, waits,
                       cancelPc, callsAtCancel>>

\* err := fn(); rate limit error with retries left: compute waitDuration and
\* enter the select that waits for it.
FnRetry(m) ==
    LET err == OpErr(m, calls + 1)
    IN  /\ pc = "call"
        /\ ~Exhausted(attempt, cfg)
        /\ isRateLimitError(err)
        /\ invoked' = Append(invoked, Invocation(err))
        /\ lastErr' = err
        /\ \E k \in RandDraws :
              waits' = Append(waits, [dur     |-> calculateBackoff(backoff, err, k),
                                      nominal |-> backoff,
                                      err     |-> err])
        /\ pc' = "wait"
        /\ UNCHANGED <<supplied, cfg, ctxDone, attempt, backoff, ret,
                       cancelPc, callsAtCancel>>

\* A cancelled wait that returns the operation's last error.
WaitCancelled_lastErr ==
    /\ pc = "wait"
    /\ ctxDone
    /\ ret' = lastErr
    /\ pc' = "done"
    /\ UNCHANGED <<supplied, cfg, ctxDone, attempt, backoff, lastErr, invoked,
                   waits, cancelPc, callsAtCancel>>

\* select { case <-ctx.Done(): return ctx.Err() ... } during the wait.
WaitCancelled ==
    /\ pc = "wait"
    /\ ctxDone
    /\ ret' = CtxErr
    /\ pc' = "done"
    /\ UNCHANGED <<supplied, cfg, ctxDone, attempt, backoff, lastErr, invoked,
                   waits, cancelPc, callsAtCancel>>

\* backoff = time.Duration(float64(backoff) * multiplier), capped at MaxBackoff.
GrowBackoff(b, c) ==
    LET nb == Trunc(b * c.BackoffMultiplier.num, c.BackoffMultiplier.den)
    IN  IF nb > c.MaxBackoff THEN c.MaxBackoff ELSE nb

\* A loop that does not advance its counter.
NextAttempt_stuck(a) ==
    a

\* attempt++
NextAttempt(a) ==
    a + 1

\* select { ... case <-time.After(waitDuration): }, then the backoff grows and
\* the loop goes to its next iteration.  When the context is done as well, the
\* select may still take this case.
WaitElapsed ==
    /\ pc = "wait"
    /\ backoff' = GrowBackoff(backoff, cfg)
    /\ attempt' = NextAttempt(attempt)
    /\ pc' = "loop"
    /\ UNCHANGED <<supplied, cfg, ctxDone, lastErr, ret, invoked, waits,
                   cancelPc, callsAtCancel>>

\* The caller cancels the context, or its deadline expires.
Cancel ==
    /\ ~ctxDone
    /\ pc # "done"
    /\ ctxDone' = TRUE
    /\ cancelPc' = pc
    /\ callsAtCancel' = calls
    /\ UNCHANGED <<supplied, cfg, pc, attempt, backoff, lastErr, ret, invoked,
                   waits>>

NextRateLimiter ==
    \/ Construct
    \/ ExecuteBegin
    \/ LoopExit
    \/ CtxCheckDone
    \/ CtxCheckDefault
    \/ FnSuccess
    \/ \E m \in ExecMsgs : FnPermanent(m)
    \/ \E m \in ExecMsgs : FnExhausted(m)
    \/ \E m \in ExecMsgs : FnRetry(m)
    \/ WaitCancelled
    \/ WaitElapsed
    \/ Cancel

\* ------------------------------------------------------------------------
\* Provider registry and gateway construction (gateway.go)
\* ------------------------------------------------------------------------

gwVars ==
    <<providerFactories, gpc, configs, idx, providers, adapters, ctorCalls,
      lookups, newRet>>

cbVars ==
    <<cbErr, cbBase, cbWait>>

opVars ==
    <<genCalls, healthCalls, opCount, closeReturns, lastOp>>

e2eVars ==
    <<e2e, vendorLog>>

lockVars ==
    <<mu, threads, mapAccess>>

vars ==
    <<supplied, cfg, ctxDone, pc, attempt, backoff, lastErr, ret, invoked,
      waits, cancelPc, callsAtCancel, providerFactories, gpc, configs, idx,
      providers, adapters, ctorCalls, lookups, newRet, cbErr, cbBase, cbWait,
      genCalls, healthCalls, opCount, closeReturns, lastOp, e2e, vendorLog,
      mu, threads, mapAccess, execs>>

ProviderTypes ==
    {"openai", "stub"}

\* Factory functions that can be registered; "none" marks an absent map entry.
Factories ==
    {"ctorA", "ctorB"}

\* A nil ProviderConfig.
NilProviderConfig ==
    [isNil |-> TRUE, providerType |-> "", apiKeySet |-> FALSE]

\* The entries of a configuration list: nil, or a configuration naming its
\* provider, with or without the credential its factory requires.
ProviderConfigs ==
    {NilProviderConfig} \cup
    [isNil : {FALSE}, providerType : ProviderTypes, apiKeySet : BOOLEAN]

ConfigLists ==
    UNION { [1..n -> ProviderConfigs] : n \in 0..MaxConfigs }

\* Errors New returns.
NoError ==
    [kind |-> "nil", provider |-> ""]

NewError(k, p) ==
    [kind |-> k, provider |-> p]

InitGateway ==
    /\ providerFactories = [p \in ProviderTypes |-> "none"]
    /\ gpc = "init"
    /\ configs = <<>>
    /\ idx = 0
    /\ providers = [p \in ProviderTypes |-> 0]
    /\ adapters = <<>>
    /\ ctorCalls = <<>>
    /\ lookups = <<>>
    /\ newRet = [g |-> FALSE, err |-> NoError]

\* providerFactories[providerType] = factory (last writer wins).  A registration
\* made after New has returned cannot reach the gateway and is not explored.
RegisterProvider(providerType, factory) ==
    /\ gpc # "returned"
    /\ providerFactories[providerType] # factory
    /\ providerFactories' = [providerFactories EXCEPT ![providerType] = factory]
    /\ UNCHANGED <<gpc, configs, idx, providers, adapters, ctorCalls, lookups,
                   newRet>>

\* New(configs): g := &LLMGateway{providers: make(map...)}; options applied.
NewBegin(cs) ==
    /\ gpc = "init"
    /\ configs' = cs
    /\ idx' = 1
    /\ providers' = [p \in ProviderTypes |-> 0]
    /\ gpc' = "loop"
    /\ UNCHANGED <<providerFactories, adapters, ctorCalls, lookups, newRet>>

\* factory, exists := providerFactories[providerType], as a history record.
Lookup(providerType) ==
    [provider |-> providerType, factory |-> providerFactories[providerType]]

\* if config == nil { continue }
NewSkipNil ==
    /\ gpc = "loop"
    /\ idx <= Len(configs)
    /\ configs[idx].isNil
    /\ idx' = idx + 1
    /\ UNCHANGED <<providerFactories, gpc, configs, providers, adapters,
                   ctorCalls, lookups, newRet>>

\* if !exists { return nil, "unknown provider type" }
NewUnknown ==
    /\ gpc = "loop"
    /\ idx <= Len(configs)
    /\ ~configs[idx].isNil
    /\ providerFactories[configs[idx].providerType] = "none"
    /\ lookups' = Append(lookups, Lookup(configs[idx].providerType))
    /\ newRet' = [g |-> FALSE,
                  err |-> NewError("unknown provider type",
                                   configs[idx].providerType)]
    /\ gpc' = "returned"
    /\ UNCHANGED <<providerFactories, configs, idx, providers, adapters,
                   ctorCalls>>

\* What a factory returns for a configuration: an error when the required
\* credential is missing (newOpenAIClient: "API key is required").
FactoryOk(config) ==
    config.apiKeySet

\* A failing factory after which New goes on to the next configuration.
NewCtorFail_continue ==
    /\ gpc = "loop"
    /\ idx <= Len(configs)
    /\ ~configs[idx].isNil
    /\ providerFactories[configs[idx].providerType] # "none"
    /\ ~FactoryOk(configs[idx])
    /\ lookups' = Append(lookups, Lookup(configs[idx].providerType))
    /\ ctorCalls' = Append(ctorCalls,
                           [factory |-> providerFactories[configs[idx].providerType],
                            provider |-> configs[idx].providerType,
                            ok |-> FALSE])
    /\ idx' = idx + 1
    /\ UNCHANGED <<providerFactories, gpc, configs, providers, adapters, newRet>>

\* client, err := factory(config, g.logger); err != nil: return nil, "failed to initialize".
NewCtorFail ==
    /\ gpc = "loop"
    /\ idx <= Len(configs)
    /\ ~configs[idx].isNil
    /\ providerFactories[configs[idx].providerType] # "none"
    /\ ~FactoryOk(configs[idx])
    /\ lookups' = Append(lookups, Lookup(configs[idx].providerType))
    /\ ctorCalls' = Append(ctorCalls,
                           [factory |-> providerFactories[configs[idx].providerType],
                            provider |-> configs[idx].providerType,
                            ok |-> FALSE])
    /\ newRet' = [g |-> FALSE,
                  err |-> NewError("failed to initialize",
                                   configs[idx].providerType)]
    /\ gpc' = "returned"
    /\ UNCHANGED <<providerFactories, configs, idx, providers, adapters>>

\* A successful factory call whose adapter is not stored in g.providers.
NewRegister_noInsert ==
    /\ gpc = "loop"
    /\ idx <= Len(configs)
    /\ ~configs[idx].isNil
    /\ providerFactories[configs[idx].providerType] # "none"
    /\ FactoryOk(configs[idx])
    /\ lookups' = Append(lookups, Lookup(configs[idx].providerType))
    /\ ctorCalls' = Append(ctorCalls,
                           [factory |-> providerFactories[configs[idx].providerType],
                            provider |-> configs[idx].providerType,
                            ok |-> TRUE])
    /\ adapters' = Append(adapters,
                          [provider |-> configs[idx].providerType,
                           factory |-> providerFactories[configs[idx].providerType],
                           closeCalls |-> 0])
    /\ idx' = idx + 1
    /\ UNCHANGED <<providerFactories, gpc, configs, providers, newRet>>

\* client, err := factory(config, g.logger); g.providers[providerType] = client.
NewRegister ==
    /\ gpc = "loop"
    /\ idx <= Len(configs)
    /\ ~configs[idx].isNil
    /\ providerFactories[configs[idx].providerType] # "none"
    /\ FactoryOk(configs[idx])
    /\ lookups' = Append(lookups, Lookup(configs[idx].providerType))
    /\ ctorCalls' = Append(ctorCalls,
                           [factory |-> providerFactories[configs[idx].providerType],
                            provider |-> configs[idx].providerType,
                            ok |-> TRUE])
    /\ adapters' = Append(adapters,
                          [provider |-> configs[idx].providerType,
                           factory |-> providerFactories[configs[idx].providerType],
                           closeCalls |-> 0])
    /\ providers' = [providers EXCEPT ![configs[idx].providerType] =
                                          Len(adapters) + 1]
    /\ idx' = idx + 1
    /\ UNCHANGED <<providerFactories, gpc, configs, newRet>>

\* A return of g without the test for an empty map.
NewFinish_noCheck ==
    /\ gpc = "loop"
    /\ idx > Len(configs)
    /\ newRet' = [g |-> TRUE, err |-> NoError]
    /\ gpc' = "returned"
    /\ UNCHANGED <<providerFactories, configs, idx, providers, adapters,
                   ctorCalls, lookups>>

\* After the loop: an empty map is an error, otherwise return g, nil.
NewFinish ==
    /\ gpc = "loop"
    /\ idx > Len(configs)
    /\ newRet' = IF \A p \in ProviderTypes : providers[p] = 0
                 THEN [g |-> FALSE,
                       err |-> NewError("at least one provider must be configured", "")]
                 ELSE [g |-> TRUE, err |-> NoError]
    /\ gpc' = "returned"
    /\ UNCHANGED <<providerFactories, configs, idx, providers, adapters,
                   ctorCalls, lookups>>

NextGateway ==
    \/ \E p \in ProviderTypes, f \in Factories : RegisterProvider(p, f)
    \/ \E cs \in ConfigLists : NewBegin(cs)
    \/ NewSkipNil
    \/ NewUnknown
    \/ NewCtorFail
    \/ NewRegister
    \/ NewFinish

\* ------------------------------------------------------------------------
\* Calls on a constructed gateway (gateway.go)
\* ------------------------------------------------------------------------

\* Adapters are numbered in the order the factories produced them.
AdapterIds ==
    1..MaxConfigs

\* The provider types g.providers has an entry for.
MapKeys ==
    { p \in ProviderTypes : providers[p] # 0 }

\* What an adapter's Generate returns: a response or nil, the Provider field
\* the adapter left in the response, and an error or nil.
AdapterReturns ==
    { [resp |-> FALSE, provider |-> "", err |-> e] : e \in BOOLEAN }
    \cup [resp : {TRUE}, provider : {""} \cup ProviderTypes, err : BOOLEAN]

\* The record of a call that has not happened.
NoOp ==
    [op |-> "none", provider |-> "", found |-> FALSE, adapter |-> 0,
     closedBefore |-> FALSE,
     adapterRet |-> [resp |-> FALSE, provider |-> "", err |-> FALSE],
     result |-> "none", respProvider |-> "",
     err |-> "nil", named |-> {}, closeFailed |-> {}, listed |-> {}]

OpsIdle ==
    /\ genCalls = [a \in AdapterIds |-> 0]
    /\ healthCalls = [a \in AdapterIds |-> 0]
    /\ opCount = 0
    /\ closeReturns = 0
    /\ lastOp = NoOp

\* New has returned a gateway and the caller may make another call on it.
GatewayUsable ==
    /\ gpc = "returned"
    /\ newRet.g
    /\ opCount < MaxOps

\* A result that keeps the adapter's response when the adapter also
\* returned an error.
GenResult_keepResp(r) ==
    IF r.resp THEN "resp" ELSE IF r.err THEN "nil" ELSE "panic"

\* The *GenerationResponse Generate hands back for the adapter's return r:
\* nil when err != nil; otherwise resp, unless resp is nil, in which case
\* resp.Provider = provider dereferences nil and the call panics.
GenResult(r) ==
    IF r.err THEN "nil" ELSE IF r.resp THEN "resp" ELSE "panic"

\* A returned response that keeps the Provider field the adapter wrote.
GenRespProvider_unstamped(provider, r) ==
    IF GenResult(r) = "resp" THEN r.provider ELSE ""

\* The Provider field of the returned response: resp.Provider = provider.
GenRespProvider(provider, r) ==
    IF GenResult(r) = "resp" THEN provider ELSE ""

\* Generate(ctx, model, prompt), provider = model.Provider(); r is what the
\* adapter's Generate returns when it is reached.
Generate(provider, r) ==
    /\ GatewayUsable
    /\ opCount' = opCount + 1
    /\ IF providers[provider] = 0
       THEN /\ lastOp' = [NoOp EXCEPT !.op = "Generate", !.provider = provider,
                                      !.result = "nil", !.err = "not registered"]
            /\ UNCHANGED genCalls
       ELSE /\ genCalls' = [genCalls EXCEPT ![providers[provider]] = @ + 1]
            /\ lastOp' = [NoOp EXCEPT
                  !.op = "Generate", !.provider = provider, !.found = TRUE,
                  !.adapter = providers[provider],
                  !.closedBefore = adapters[providers[provider]].closeCalls > 0,
                  !.adapterRet = r,
                  !.result = GenResult(r),
                  !.respProvider = GenRespProvider(provider, r),
                  !.err = IF r.err THEN "adapter" ELSE "nil"]
    /\ UNCHANGED <<healthCalls, closeReturns>>
    /\ UNCHANGED gwVars

\* Health that asks every adapter when the provider is not registered.
Health_probeAll(provider, ok) ==
    /\ GatewayUsable
    /\ opCount' = opCount + 1
    /\ IF providers[provider] = 0
       THEN /\ lastOp' = [NoOp EXCEPT !.op = "Health", !.provider = provider,
                                      !.err = "not registered"]
            /\ healthCalls' = [a \in AdapterIds |->
                  IF \E p \in MapKeys : providers[p] = a
                  THEN healthCalls[a] + 1 ELSE healthCalls[a]]
       ELSE /\ healthCalls' = [healthCalls EXCEPT ![providers[provider]] = @ + 1]
            /\ lastOp' = [NoOp EXCEPT
                  !.op = "Health", !.provider = provider, !.found = TRUE,
                  !.adapter = providers[provider],
                  !.closedBefore = adapters[providers[provider]].closeCalls > 0,
                  !.err = IF ok THEN "nil" ELSE "adapter"]
    /\ UNCHANGED <<genCalls, closeReturns>>
    /\ UNCHANGED gwVars

\* Health(ctx, provider); ok tells whether the adapter's Health succeeds.
Health(provider, ok) ==
    /\ GatewayUsable
    /\ opCount' = opCount + 1
    /\ IF providers[provider] = 0
       THEN /\ lastOp' = [NoOp EXCEPT !.op = "Health", !.provider = provider,
                                      !.err = "not registered"]
            /\ UNCHANGED healthCalls
       ELSE /\ healthCalls' = [healthCalls EXCEPT ![providers[provider]] = @ + 1]
            /\ lastOp' = [NoOp EXCEPT
                  !.op = "Health", !.provider = provider, !.found = TRUE,
                  !.adapter = providers[provider],
                  !.closedBefore = adapters[providers[provider]].closeCalls > 0,
                  !.err = IF ok THEN "nil" ELSE "adapter"]
    /\ UNCHANGED <<genCalls, closeReturns>>
    /\ UNCHANGED gwVars

\* IsRegistered(provider)
IsRegistered(provider) ==
    /\ GatewayUsable
    /\ opCount' = opCount + 1
    /\ lastOp' = [NoOp EXCEPT !.op = "IsRegistered", !.provider = provider,
                              !.found = (providers[provider] # 0)]
    /\ UNCHANGED <<genCalls, healthCalls, closeReturns>>
    /\ UNCHANGED gwVars

\* ListRegisteredProviders()
ListRegisteredProviders ==
    /\ GatewayUsable
    /\ opCount' = opCount + 1
    /\ lastOp' = [NoOp EXCEPT !.op = "List", !.listed = MapKeys]
    /\ UNCHANGED <<genCalls, healthCalls, closeReturns>>
    /\ UNCHANGED gwVars

\* Close that leaves the loop at the first adapter that fails: the adapters
\* the map iteration would have visited after it (rest) are not closed.
Close_stopAtFirst(failing) ==
    /\ GatewayUsable
    /\ failing \subseteq MapKeys
    /\ opCount' = opCount + 1
    /\ closeReturns' = closeReturns + 1
    /\ \E rest \in SUBSET MapKeys :
          /\ failing = {} => rest = {}
          /\ failing # {} => (failing \ rest) # {}
          /\ adapters' = [a \in 1..Len(adapters) |->
                IF \E p \in MapKeys \ rest : providers[p] = a
                THEN [adapters[a] EXCEPT !.closeCalls = @ + 1]
                ELSE adapters[a]]
          /\ lastOp' = [NoOp EXCEPT
                !.op = "Close",
                !.err = IF failing = {} THEN "nil" ELSE "failed to close providers",
                !.named = failing \ rest,
                !.closeFailed = failing]
    /\ UNCHANGED <<genCalls, healthCalls>>
    /\ UNCHANGED <<providerFactories, gpc, configs, idx, providers, ctorCalls,
                   lookups, newRet>>

\* Close(): provider.Close() is called on every entry of g.providers; failing
\* is the set of providers whose Close returns an error.  The map is left as
\* it was.
Close(failing) ==
    /\ GatewayUsable
    /\ failing \subseteq MapKeys
    /\ opCount' = opCount + 1
    /\ closeReturns' = closeReturns + 1
    /\ adapters' = [a \in 1..Len(adapters) |->
          IF \E p \in MapKeys : providers[p] = a
          THEN [adapters[a] EXCEPT !.closeCalls = @ + 1]
          ELSE adapters[a]]
    /\ lastOp' = [NoOp EXCEPT
          !.op = "Close",
          !.err = IF failing = {} THEN "nil" ELSE "failed to close providers",
          !.named = failing,
          !.closeFailed = failing]
    /\ UNCHANGED <<genCalls, healthCalls>>
    /\ UNCHANGED <<providerFactories, gpc, configs, idx, providers, ctorCalls,
                   lookups, newRet>>

\* The registry after every provider's init() has registered its factory.
LoadedFactories ==
    [p \in ProviderTypes |-> "ctorA"]

\* The state before New in a program whose providers are all registered.
InitLoaded ==
    /\ providerFactories = LoadedFactories
    /\ gpc = "init"
    /\ configs = <<>>
    /\ idx = 0
    /\ providers = [p \in ProviderTypes |-> 0]
    /\ adapters = <<>>
    /\ ctorCalls = <<>>
    /\ lookups = <<>>
    /\ newRet = [g |-> FALSE, err |-> NoError]

\* New's steps when every provider is registered.
NextNewLoaded ==
    /\ \/ \E cs \in ConfigLists : NewBegin(cs)
       \/ NewSkipNil
       \/ NewCtorFail
       \/ NewRegister
       \/ NewFinish
    /\ UNCHANGED opVars
    /\ UNCHANGED e2eVars
    /\ UNCHANGED lockVars
    /\ UNCHANGED execs

NextOps ==
    \/ \E p \in ProviderTypes, r \in AdapterReturns : Generate(p, r)
    \/ \E p \in ProviderTypes, ok \in BOOLEAN : Health(p, ok)
    \/ \E p \in ProviderTypes : IsRegistered(p)
    \/ ListRegisteredProviders
    \/ \E failing \in SUBSET ProviderTypes : Close(failing)

\* ------------------------------------------------------------------------
\* Gateway.Generate down to the vendor: one adapter, its retry controller
\* ------------------------------------------------------------------------

\* The adapters: openAIClient calls its SDK, perplexityClient the package's
\* own HTTP client, ollamaClient net/http directly.
AdapterKinds ==
    {"openai", "perplexity", "ollama"}

\* What the vendor answers to one request: an HTTP status.
Statuses ==
    {200, 429, 401}

\* Index into ErrTexts of a text.
TextIndex(t) ==
    CHOOSE m \in 1..Len(ErrTexts) : ErrTexts[m] = t

\* The error (index into ErrTexts, 0 for nil) that the closure handed to
\* Execute returns when the vendor answers with the status.  The OpenAI SDK
\* returns an error for a non-2xx answer; Client.ChatCompletions returns an
\* *APIError for a status other than 200; httpClient.Do returns a nil error
\* for every HTTP answer, whatever its status.
fnErrorMsg(kind, status) ==
    CASE kind = "openai" ->
            IF status = 200 THEN 0
            ELSE IF status = 429 THEN TextIndex(TxtTooMany)
            ELSE TextIndex(TxtBadKey)
      [] kind = "perplexity" ->
            IF status = 200 THEN 0
            ELSE IF status = 429 THEN TextIndex(TxtPplx429)
            ELSE TextIndex(TxtPplx401)
      [] kind = "ollama" -> 0

\* An error of the adapter or of Gateway.Generate: nil, the very error value
\* inner ("same"), a new error that wraps inner with %w ("wrapped"), or a new
\* error built from the answer's status ("status").
NoAdapterErr ==
    [form |-> "nil", inner |-> NilErr]

\* The error value err itself, handed on as it is.
SameError(err) ==
    [form |-> "same", inner |-> err]

\* fmt.Errorf("... generation failed: %w", err)
WrapError(err) ==
    [form |-> "wrapped", inner |-> err]

\* A closure that assigns to a variable resp of its own, so that the
\* adapter's resp stays nil after a successful request.
AdapterResult_shadowed(kind, r, n, lastStatus) ==
    IF r # NilErr
    THEN [panic |-> FALSE, resp |-> FALSE, err |-> WrapError(r)]
    ELSE [panic |-> TRUE, resp |-> FALSE, err |-> NoAdapterErr]

\* What the adapter's Generate does after Execute returned r, the closure
\* having run n times and the last answer being lastStatus: an error from
\* Execute is wrapped; with a nil error and no answer, resp is nil and its
\* dereference panics; ollamaClient then turns a status other than 200 into
\* an error; otherwise the response is built.
AdapterResult(kind, r, n, lastStatus) ==
    IF r # NilErr
    THEN [panic |-> FALSE, resp |-> FALSE, err |-> WrapError(r)]
    ELSE IF n = 0
    THEN [panic |-> TRUE, resp |-> FALSE, err |-> NoAdapterErr]
    ELSE IF kind = "ollama" /\ lastStatus # 200
    THEN [panic |-> FALSE, resp |-> FALSE,
          err |-> [form |-> "status", inner |-> NilErr]]
    ELSE [panic |-> FALSE, resp |-> TRUE, err |-> NoAdapterErr]

E2EStart(kind) ==
    [pc |-> "idle", kind |-> kind, result |-> "none", respProvider |-> "",
     err |-> NoAdapterErr]

E2EIdle ==
    /\ e2e = E2EStart("openai")
    /\ vendorLog = <<>>

InitE2E ==
    /\ e2e \in { E2EStart(kind) : kind \in AdapterKinds }
    /\ vendorLog = <<>>

\* Gateway.Generate finds the adapter in the map and calls its Generate,
\* which derives the context with the adapter's timeout.
GenDispatch ==
    /\ e2e.pc = "idle"
    /\ pc = "idle"
    /\ e2e' = [e2e EXCEPT !.pc = "adapter"]
    /\ UNCHANGED vendorLog
    /\ UNCHANGED rlVars

\* The adapter calls c.rateLimiter.Execute(ctx, func() error {...}).
AdapterExecute ==
    /\ e2e.pc = "adapter"
    /\ ExecuteBegin
    /\ UNCHANGED e2eVars

\* One run of the closure: the request is sent, the vendor answers with the
\* status, and Execute acts on the error the closure returns.
VendorCall(status) ==
    LET m == fnErrorMsg(e2e.kind, status)
    IN  /\ IF m = 0 THEN FnSuccess
           ELSE \/ FnPermanent(m)
                \/ FnExhausted(m)
                \/ FnRetry(m)
        /\ vendorLog' = Append(vendorLog, status)
        /\ UNCHANGED e2e

\* Execute has returned: the adapter returns, and Gateway.Generate returns
\* (nil, err) or stamps the response and returns (resp, nil).
AdapterReturn ==
    LET a == AdapterResult(e2e.kind, ret, calls,
                           IF vendorLog = <<>> THEN 0
                           ELSE vendorLog[Len(vendorLog)])
        r == [resp |-> a.resp, provider |-> "", err |-> a.err.form # "nil"]
    IN  /\ e2e.pc = "adapter"
        /\ pc = "done"
        /\ e2e' = [e2e EXCEPT
                     !.pc = "returned",
                     !.result = IF a.panic THEN "panic" ELSE GenResult(r),
                     !.respProvider = IF a.panic THEN ""
                                      ELSE GenRespProvider(e2e.kind, r),
                     !.err = a.err]
        /\ UNCHANGED vendorLog
        /\ UNCHANGED rlVars

NextE2E ==
    \/ Construct /\ UNCHANGED e2eVars
    \/ GenDispatch
    \/ AdapterExecute
    \/ LoopExit /\ UNCHANGED e2eVars
    \/ CtxCheckDone /\ UNCHANGED e2eVars
    \/ CtxCheckDefault /\ UNCHANGED e2eVars
    \/ \E status \in Statuses : VendorCall(status)
    \/ WaitCancelled /\ UNCHANGED e2eVars
    \/ WaitElapsed /\ UNCHANGED e2eVars
    \/ Cancel /\ e2e.pc = "adapter" /\ UNCHANGED e2eVars
    \/ AdapterReturn

\* ------------------------------------------------------------------------
\* g.mu: the calls on a gateway, lock by lock
\* ------------------------------------------------------------------------

Threads ==
    1..NumThreads

\* The methods of LLMGateway that touch g.providers.
Methods ==
    {"Generate", "Health", "IsRegistered", "ListRegisteredProviders", "Close"}

FreeMutex ==
    [writer |-> 0, readers |-> {}]

IdleThread ==
    [pc |-> "idle", op |-> "none", provider |-> "", client |-> 0]

NoAccess ==
    [who |-> "none", kind |-> "none", held |-> "none", unpublished |-> TRUE]

\* No thread has begun a call on the gateway: New has not returned it yet.
Unpublished ==
    \A t \in Threads : threads[t].pc = "idle"

LocksIdle ==
    /\ mu = FreeMutex
    /\ threads = [t \in Threads |-> IdleThread]
    /\ mapAccess = NoAccess

\* The lock on g.mu that thread t holds.
HeldBy(t) ==
    IF mu.writer = t THEN "write"
    ELSE IF t \in mu.readers THEN "read"
    ELSE "none"

\* Configuration lists the gateway of the threads is built from.
LockConfigLists ==
    { <<[isNil |-> FALSE, providerType |-> "openai", apiKeySet |-> TRUE]>>,
      <<NilProviderConfig,
        [isNil |-> FALSE, providerType |-> "stub", apiKeySet |-> TRUE],
        [isNil |-> FALSE, providerType |-> "openai", apiKeySet |-> TRUE]>> }

\* New runs in the thread that called it: it never takes g.mu, and g is
\* reachable by no other thread before New returns it.
NewUnlocked ==
    /\ \/ \E cs \in LockConfigLists : NewBegin(cs) /\ UNCHANGED mapAccess
       \/ NewSkipNil /\ UNCHANGED mapAccess
       \/ /\ NewRegister
          /\ mapAccess' = [who |-> "New", kind |-> "write", held |-> "none",
                           unpublished |-> Unpublished]
       \/ /\ NewFinish
          /\ mapAccess' = [who |-> "New", kind |-> "read", held |-> "none",
                           unpublished |-> Unpublished]
    /\ UNCHANGED <<mu, threads>>

\* A thread calls a method of the gateway New returned.
MethodBegin(t, op, provider) ==
    /\ gpc = "returned"
    /\ newRet.g
    /\ threads[t].pc = "idle"
    /\ threads' = [threads EXCEPT ![t] =
                      [pc |-> "waiting", op |-> op, provider |-> provider,
                       client |-> 0]]
    /\ UNCHANGED <<mu, mapAccess>>
    /\ UNCHANGED gwVars

\* g.mu.Lock() in Close, g.mu.RLock() in the other methods: the call returns
\* when no writer, and for Lock no reader, holds the mutex.
AcquireLock(t) ==
    /\ threads[t].pc = "waiting"
    /\ mu.writer = 0
    /\ IF threads[t].op = "Close"
       THEN /\ mu.readers = {}
            /\ mu' = [mu EXCEPT !.writer = t]
       ELSE mu' = [mu EXCEPT !.readers = @ \cup {t}]
    /\ threads' = [threads EXCEPT ![t].pc = "locked"]
    /\ UNCHANGED mapAccess
    /\ UNCHANGED gwVars

\* A method that reads the map before taking the lock.
MapAccess_unlocked(t) ==
    /\ threads[t].pc = "waiting"
    /\ threads[t].op # "Close"
    /\ mapAccess' = [who |-> threads[t].op, kind |-> "read",
                     held |-> HeldBy(t), unpublished |-> Unpublished]
    /\ threads' = [threads EXCEPT
                      ![t].pc = "accessed",
                      ![t].client = providers[threads[t].provider]]
    /\ UNCHANGED mu
    /\ UNCHANGED gwVars

\* The method's access to g.providers: the lookup of Generate, Health and
\* IsRegistered, the range loop of ListRegisteredProviders, and the range
\* loop of Close, which calls Close on every adapter it finds.
MapAccess(t) ==
    /\ threads[t].pc = "locked"
    /\ mapAccess' = [who |-> threads[t].op, kind |-> "read",
                     held |-> HeldBy(t), unpublished |-> Unpublished]
    /\ threads' = [threads EXCEPT
                      ![t].pc = "accessed",
                      ![t].client =
                          IF threads[t].op \in {"Generate", "Health", "IsRegistered"}
                          THEN providers[threads[t].provider] ELSE 0]
    /\ IF threads[t].op = "Close"
       THEN adapters' = [a \in 1..Len(adapters) |->
               IF \E p \in MapKeys : providers[p] = a
               THEN [adapters[a] EXCEPT !.closeCalls = @ + 1]
               ELSE adapters[a]]
       ELSE UNCHANGED adapters
    /\ UNCHANGED mu
    /\ UNCHANGED <<providerFactories, gpc, configs, idx, providers, ctorCalls,
                   lookups, newRet>>

\* The adapter call follows: client.Generate or client.Health on a hit.
CallsAdapter(thread) ==
    thread.op \in {"Generate", "Health"} /\ thread.client # 0

\* A Generate or Health that goes on to the adapter call without RUnlock.
ReleaseLock_keepRead(t) ==
    /\ threads[t].pc = "accessed"
    /\ mu' = IF CallsAdapter(threads[t]) THEN mu
             ELSE [writer |-> IF mu.writer = t THEN 0 ELSE mu.writer,
                   readers |-> mu.readers \ {t}]
    /\ threads' = [threads EXCEPT ![t].pc =
                      IF CallsAdapter(threads[t]) THEN "call" ELSE "done"]
    /\ UNCHANGED mapAccess
    /\ UNCHANGED gwVars

\* g.mu.RUnlock() right after the lookup in Generate and Health, the deferred
\* RUnlock or Unlock in the other methods; then the adapter call begins or the
\* method returns.
ReleaseLock(t) ==
    /\ threads[t].pc = "accessed"
    /\ mu' = [writer |-> IF mu.writer = t THEN 0 ELSE mu.writer,
              readers |-> mu.readers \ {t}]
    /\ threads' = [threads EXCEPT ![t].pc =
                      IF CallsAdapter(threads[t]) THEN "call" ELSE "done"]
    /\ UNCHANGED mapAccess
    /\ UNCHANGED gwVars

\* The adapter call, with all its retries and waits, returns.
AdapterCallReturns(t) ==
    /\ threads[t].pc = "call"
    /\ threads' = [threads EXCEPT ![t].pc = "done"]
    /\ UNCHANGED <<mu, mapAccess>>
    /\ UNCHANGED gwVars

NextLocks ==
    \/ NewUnlocked
    \/ \E t \in Threads, op \in Methods, p \in ProviderTypes :
          MethodBegin(t, op, p)
    \/ \E t \in Threads : AcquireLock(t)
    \/ \E t \in Threads : MapAccess(t)
    \/ \E t \in Threads : ReleaseLock(t)
    \/ \E t \in Threads : AdapterCallReturns(t)

\* ------------------------------------------------------------------------
\* Concurrent Execute calls on one rateLimiter
\* ------------------------------------------------------------------------

Calls ==
    1..NumCalls

\* The locals of an Execute call that has not begun, with the histories n
\* (invocations of fn) and nominals (the backoff at the start of each wait).
IdleExec ==
    [pc |-> "idle", ctxDone |-> FALSE, attempt |-> 0, backoff |-> 0,
     lastErr |-> NilErr, ret |-> NilErr, n |-> 0, nominals |-> <<>>]

SharedIdle ==
    execs = [c \in Calls |-> IdleExec]

\* Errors the operations of the concurrent calls return: TxtTooMany, TxtBadKey.
SharedMsgs ==
    {1, 2}

\* var lastErr error; backoff := r.config.InitialBackoff; attempt := 0
SharedBegin(c) ==
    /\ pc = "idle"
    /\ execs[c].pc = "idle"
    /\ execs' = [execs EXCEPT ![c].pc = "loop",
                              ![c].backoff = cfg.InitialBackoff]

\* The loop condition fails: return lastErr.
SharedLoopExit(c) ==
    /\ execs[c].pc = "loop"
    /\ ~(execs[c].attempt <= cfg.MaxRetries)
    /\ execs' = [execs EXCEPT ![c].pc = "done", ![c].ret = execs[c].lastErr]

\* The select before the attempt: return ctx.Err(), or go on to fn().
SharedCtxCheck(c) ==
    /\ execs[c].pc = "loop"
    /\ execs[c].attempt <= cfg.MaxRetries
    /\ execs' = IF execs[c].ctxDone
                THEN [execs EXCEPT ![c].pc = "done", ![c].ret = CtxErr]
                ELSE [execs EXCEPT ![c].pc = "call"]

\* err := fn(), m = 0 for nil, and the three returns that follow it or the
\* start of the wait.
SharedFn(c, m) ==
    LET err == IF m = 0 THEN NilErr ELSE OpErr(m, execs[c].n + 1)
    IN  /\ execs[c].pc = "call"
        /\ execs' =
              IF m = 0
              THEN [execs EXCEPT ![c].pc = "done", ![c].ret = NilErr,
                                 ![c].n = @ + 1]
              ELSE IF ~isRateLimitError(err) \/ Exhausted(execs[c].attempt, cfg)
              THEN [execs EXCEPT ![c].pc = "done", ![c].ret = err,
                                 ![c].lastErr = err, ![c].n = @ + 1]
              ELSE [execs EXCEPT ![c].pc = "wait", ![c].lastErr = err,
                                 ![c].n = @ + 1,
                                 ![c].nominals = Append(@, execs[c].backoff)]

\* case <-ctx.Done(): return ctx.Err(), during the wait.
SharedWaitCancelled(c) ==
    /\ execs[c].pc = "wait"
    /\ execs[c].ctxDone
    /\ execs' = [execs EXCEPT ![c].pc = "done", ![c].ret = CtxErr]

\* A backoff kept in the rateLimiter instead of in a local of Execute: the
\* growth after one call's wait is seen by every call.
SharedWaitElapsed_field(c) ==
    /\ execs[c].pc = "wait"
    /\ execs' = [d \in Calls |->
                    IF d = c
                    THEN [execs[d] EXCEPT
                            !.pc = "loop",
                            !.backoff = GrowBackoff(execs[c].backoff, cfg),
                            !.attempt = NextAttempt(@)]
                    ELSE [execs[d] EXCEPT
                            !.backoff = GrowBackoff(execs[c].backoff, cfg)]]

\* case <-time.After(waitDuration): the call's backoff grows, attempt++.
SharedWaitElapsed(c) ==
    /\ execs[c].pc = "wait"
    /\ execs' = [execs EXCEPT ![c].pc = "loop",
                              ![c].backoff = GrowBackoff(@, cfg),
                              ![c].attempt = NextAttempt(@)]

\* The context of one call is cancelled.
SharedCancel(c) ==
    /\ execs[c].pc \notin {"idle", "done"}
    /\ ~execs[c].ctxDone
    /\ execs' = [execs EXCEPT ![c].ctxDone = TRUE]

NextShared ==
    \/ Construct /\ UNCHANGED execs
    \/ /\ \E c \in Calls :
             \/ SharedBegin(c)
             \/ SharedLoopExit(c)
             \/ SharedCtxCheck(c)
             \/ \E m \in {0} \cup SharedMsgs : SharedFn(c, m)
             \/ SharedWaitCancelled(c)
             \/ SharedWaitElapsed(c)
             \/ SharedCancel(c)
       /\ UNCHANGED rlVars

\* ------------------------------------------------------------------------
\* calculateBackoff applied on its own
\* ------------------------------------------------------------------------

\* Values of baseBackoff the function is applied to.
BaseInputs ==
    {1, 8, 20, 1 * Second, 4 * Second}

InitCalc ==
    /\ cbErr \in { OpErr(m, 1) : m \in OpMsgs }
    /\ cbBase \in BaseInputs
    /\ cbWait = -1

CalcIdle ==
    /\ cbErr = NilErr
    /\ cbBase = 0
    /\ cbWait = -1

\* waitDuration := r.calculateBackoff(backoff, err), rand.Float64() = k/RandDen.
Calculate(k) ==
    /\ cbWait = -1
    /\ cbWait' = calculateBackoff(cbBase, cbErr, k)
    /\ UNCHANGED <<cbErr, cbBase>>

\* ------------------------------------------------------------------------
\* Specifications
\* ------------------------------------------------------------------------

\* One adapter builds its retry controller and runs one Execute call, while
\* the caller may cancel the context at any moment.
Init ==
    /\ InitRateLimiter
    /\ InitGateway
    /\ CalcIdle
    /\ OpsIdle
    /\ E2EIdle
    /\ LocksIdle
    /\ SharedIdle

Next ==
    /\ NextRateLimiter
    /\ UNCHANGED gwVars
    /\ UNCHANGED cbVars
    /\ UNCHANGED opVars
    /\ UNCHANGED e2eVars
    /\ UNCHANGED lockVars
    /\ UNCHANGED execs

Spec ==
    Init /\ [][Next]_vars

\* Providers register themselves and one gateway is constructed.
InitNew ==
    /\ InitGateway
    /\ InitRateLimiter
    /\ supplied = NilConfig
    /\ CalcIdle
    /\ OpsIdle
    /\ E2EIdle
    /\ LocksIdle
    /\ SharedIdle

NextNew ==
    /\ NextGateway
    /\ UNCHANGED rlVars
    /\ UNCHANGED cbVars
    /\ UNCHANGED opVars
    /\ UNCHANGED e2eVars
    /\ UNCHANGED lockVars
    /\ UNCHANGED execs

SpecNew ==
    InitNew /\ [][NextNew]_vars

\* calculateBackoff is applied to one error and one base backoff.
InitCalcOnly ==
    /\ InitCalc
    /\ InitGateway
    /\ InitRateLimiter
    /\ supplied = NilConfig
    /\ OpsIdle
    /\ E2EIdle
    /\ LocksIdle
    /\ SharedIdle

NextCalc ==
    /\ \E k \in RandDraws : Calculate(k)
    /\ UNCHANGED rlVars
    /\ UNCHANGED gwVars
    /\ UNCHANGED opVars
    /\ UNCHANGED e2eVars
    /\ UNCHANGED lockVars
    /\ UNCHANGED execs

SpecCalc ==
    InitCalcOnly /\ [][NextCalc]_vars

\* Every provider is registered; one gateway is constructed and then called,
\* one call after the other.
InitGatewayOps ==
    /\ InitLoaded
    /\ InitRateLimiter
    /\ supplied = NilConfig
    /\ CalcIdle
    /\ OpsIdle
    /\ E2EIdle
    /\ LocksIdle
    /\ SharedIdle

NextGatewayOps ==
    /\ \/ NextNewLoaded
       \/ NextOps /\ UNCHANGED e2eVars /\ UNCHANGED lockVars /\ UNCHANGED execs
    /\ UNCHANGED rlVars
    /\ UNCHANGED cbVars

SpecGateway ==
    InitGatewayOps /\ [][NextGatewayOps]_vars

\* One Gateway.Generate call on a gateway that holds one adapter, down to the
\* vendor's answers, while the context may be cancelled or time out.
InitEndToEnd ==
    /\ InitRateLimiter
    /\ InitGateway
    /\ CalcIdle
    /\ OpsIdle
    /\ InitE2E
    /\ LocksIdle
    /\ SharedIdle

NextEndToEnd ==
    /\ NextE2E
    /\ UNCHANGED gwVars
    /\ UNCHANGED cbVars
    /\ UNCHANGED opVars
    /\ UNCHANGED lockVars
    /\ UNCHANGED execs

SpecEndToEnd ==
    InitEndToEnd /\ [][NextEndToEnd]_vars

\* Every provider is registered; one thread constructs a gateway, and then
\* NumThreads threads each call one of its methods.
InitLocks ==
    /\ InitLoaded
    /\ InitRateLimiter
    /\ supplied = NilConfig
    /\ CalcIdle
    /\ OpsIdle
    /\ E2EIdle
    /\ LocksIdle
    /\ SharedIdle

NextLocksOnly ==
    /\ NextLocks
    /\ UNCHANGED rlVars
    /\ UNCHANGED cbVars
    /\ UNCHANGED opVars
    /\ UNCHANGED e2eVars
    /\ UNCHANGED execs

SpecLocks ==
    InitLocks /\ [][NextLocksOnly]_vars

\* One retry controller is built and NumCalls Execute calls run on it
\* concurrently, each with its own context and operation.
InitShared ==
    /\ InitRateLimiter
    /\ InitGateway
    /\ CalcIdle
    /\ OpsIdle
    /\ E2EIdle
    /\ LocksIdle
    /\ SharedIdle

NextSharedOnly ==
    /\ NextShared
    /\ UNCHANGED gwVars
    /\ UNCHANGED cbVars
    /\ UNCHANGED opVars
    /\ UNCHANGED e2eVars
    /\ UNCHANGED lockVars

SpecShared ==
    InitShared /\ [][NextSharedOnly]_vars

\* newRateLimiter applied to configurations with every mix of zero and
\* non-zero fields.
FieldInputs ==
    {NilConfig} \cup
    { RateLimitConfig(mr, ib, mb, mult) :
        mr \in {-1, 0, 1, 5},
        ib \in {0, 1, 500},
        mb \in {0, 10, 30 * Second},
        mult \in {Mult(0, 1), Mult(3, 1), Mult(1, 2)} }

InitConfig ==
    /\ supplied \in FieldInputs
    /\ cfg = supplied
    /\ ctxDone = FALSE
    /\ pc = "new"
    /\ attempt = 0
    /\ backoff = 0
    /\ lastErr = NilErr
    /\ ret = NilErr
    /\ invoked = <<>>
    /\ waits = <<>>
    /\ cancelPc = "none"
    /\ callsAtCancel = 0
    /\ InitGateway
    /\ CalcIdle
    /\ OpsIdle
    /\ E2EIdle
    /\ LocksIdle
    /\ SharedIdle

NextConfig ==
    /\ Construct
    /\ UNCHANGED gwVars
    /\ UNCHANGED cbVars
    /\ UNCHANGED opVars
    /\ UNCHANGED e2eVars
    /\ UNCHANGED lockVars
    /\ UNCHANGED execs

SpecConfig ==
    InitConfig /\ [][NextConfig]_vars

\* ------------------------------------------------------------------------
\* Properties of Execute
\* ------------------------------------------------------------------------

\* The error is one the controller's classification treats as transient.
Transient(err) ==
    err.kind = "op" /\ hasRateLimitIndicator(ErrTexts[err.msg])

\* The error is a non-nil error that the classification treats as permanent.
Permanent(err) ==
    err.kind = "op" /\ ~hasRateLimitIndicator(ErrTexts[err.msg])

\* Every invocation so far returned a transient error.
AllTransient ==
    \A i \in 1..calls : Transient(invoked[i].err)

\* MaxRetries + 1 as a number of invocations: the number of loop indexes
\* 0..MaxRetries, which is zero when MaxRetries is negative.
AttemptBound ==
    IF cfg.MaxRetries + 1 > 0 THEN cfg.MaxRetries + 1 ELSE 0

\* C1: whatever the operation returns and whenever the context is cancelled,
\* one Execute call invokes the operation at most MaxRetries + 1 times, for
\* the effective MaxRetries (no invocation at all when MaxRetries is negative).
C1_AtMostMaxRetriesPlusOne ==
    calls <= AttemptBound

\* C1 witness: a call that used all MaxRetries + 1 invocations, with retries.
C1_Witness ==
    /\ pc = "done"
    /\ cfg.MaxRetries >= 1
    /\ calls = cfg.MaxRetries + 1

\* C2: when every invocation returns a transient error and the context is not
\* cancelled, Execute has invoked the operation exactly MaxRetries + 1 times
\* when it returns, and it returns with the last of these invocations (no wait
\* follows it).
C2_AllTransientExactly ==
    /\ (pc = "done" /\ ~ctxDone /\ AllTransient) => calls = AttemptBound
    /\ (calls > 0 /\ calls = AttemptBound /\ AllTransient) => pc = "done"

\* C2 witness: an uncancelled call whose invocations all failed transiently,
\* returned after MaxRetries + 1 >= 3 of them.
C2_Witness ==
    /\ pc = "done"
    /\ ~ctxDone
    /\ AllTransient
    /\ calls = cfg.MaxRetries + 1
    /\ calls >= 3

\* C3: an invocation that returns a permanent error is the last one; Execute
\* has returned that very error, no wait was started after it, and on the
\* first attempt the operation was invoked exactly once.
C3_PermanentReturnsAtOnce ==
    \A i \in 1..calls :
        Permanent(invoked[i].err) =>
            /\ i = calls
            /\ pc = "done"
            /\ ret = invoked[i].err
            /\ Len(waits) = invoked[i].waitsBefore
            /\ (invoked[i].attempt = 0 => calls = 1)

\* C3 witness: a permanent error on the first attempt, and one after retries.
C3_Witness ==
    /\ pc = "done"
    /\ calls >= 2
    /\ Permanent(invoked[calls].err)
    /\ ret = invoked[calls].err

\* C4: a successful invocation on attempt k, after k transient failures, is
\* the last one: Execute has returned nil, and exactly k + 1 invocations and
\* k waits have occurred.
C4_SuccessShortCircuits ==
    \A i \in 1..calls :
        invoked[i].err = NilErr =>
            /\ i = calls
            /\ pc = "done"
            /\ ret = NilErr
            /\ invoked[i].attempt = i - 1
            /\ invoked[i].attempt <= cfg.MaxRetries
            /\ Len(waits) = i - 1
            /\ \A j \in 1..(i - 1) : Transient(invoked[j].err)

\* C4 witness: success on attempt 2 after two transient failures.
C4_Witness ==
    /\ pc = "done"
    /\ ret = NilErr
    /\ calls = 3
    /\ invoked[3].err = NilErr
    /\ Len(waits) = 2

\* C5: the nominal backoffs of the successive retries of one Execute call are
\* non-decreasing and each of them, the first included, is at most MaxBackoff.
C5_NominalMonotoneAndCapped ==
    \A i \in 1..Len(waits) :
        /\ waits[i].nominal <= cfg.MaxBackoff
        /\ (i > 1 => waits[i - 1].nominal <= waits[i].nominal)

\* The retry-after hint written in each text of ErrTexts: the number num/den
\* and its unit; has is FALSE when the text has no positive number after a
\* supported pattern.
WrittenHint ==
    [m \in 1..Len(ErrTexts) |->
        CASE m = 3  -> [has |-> TRUE, num |-> 2, den |-> 1, unit |-> Second]
          [] m = 4  -> [has |-> TRUE, num |-> 1500, den |-> 1, unit |-> Millisecond]
          [] m = 5  -> [has |-> TRUE, num |-> 1, den |-> 1, unit |-> Second]
          [] m = 6  -> [has |-> TRUE, num |-> 3, den |-> 2, unit |-> Second]
          [] m = 7  -> [has |-> TRUE, num |-> 1, den |-> 2, unit |-> Second]
          [] m = 9  -> [has |-> TRUE, num |-> 2, den |-> 1, unit |-> Second]
          [] m = 11 -> [has |-> TRUE, num |-> 250, den |-> 1, unit |-> Millisecond]
          [] OTHER  -> [has |-> FALSE, num |-> 0, den |-> 1, unit |-> Second]]

\* C6: for a transient error whose text carries a retry-after hint with a
\* positive value n, integral or fractional, the computed wait is exactly n of
\* the pattern's unit, whatever the base backoff and the random draw.
C6_RetryAfterExact ==
    (cbWait # -1 /\ Transient(cbErr) /\ WrittenHint[cbErr.msg].has) =>
        cbWait * WrittenHint[cbErr.msg].den
            = WrittenHint[cbErr.msg].num * WrittenHint[cbErr.msg].unit

\* C7: once the context is cancelled during a wait, the operation is never
\* invoked again, the call is waiting, re-checking the context or returned,
\* and what it returns is the context's error.
C7_CancelDuringWait ==
    cancelPc = "wait" =>
        /\ calls = callsAtCancel
        /\ pc \in {"wait", "loop", "done"}
        /\ (pc = "done" => ret = CtxErr)

\* C7 witness: a call cancelled during its second wait has returned.
C7_Witness ==
    /\ cancelPc = "wait"
    /\ pc = "done"
    /\ ret = CtxErr
    /\ Len(waits) = 2

\* C8: when the context is cancelled before an attempt's check (before
\* Execute is called, or between a wait and the next attempt), the operation
\* is not invoked any more and Execute returns the context's error; a context
\* cancelled before the call yields zero invocations.
C8_CancelledBeforeAttempt ==
    cancelPc \in {"new", "idle", "loop"} =>
        /\ calls = callsAtCancel
        /\ (cancelPc \in {"new", "idle"} => calls = 0)
        /\ pc # "call"
        /\ (pc = "done" /\ attempt <= cfg.MaxRetries => ret = CtxErr)

\* C8 witness: cancelled before a retry, after one invocation, and returned.
C8_Witness ==
    /\ cancelPc = "loop"
    /\ callsAtCancel = 1
    /\ pc = "done"
    /\ ret = CtxErr

\* C9: when the attempt with index MaxRetries returns a transient error it is
\* the last invocation, Execute has returned that very error object, and no
\* wait was started after it.
C9_ExhaustedReturnsLastError ==
    \A i \in 1..calls :
        (invoked[i].attempt = cfg.MaxRetries /\ Transient(invoked[i].err)) =>
            /\ i = calls
            /\ pc = "done"
            /\ ret = invoked[i].err
            /\ Len(waits) = invoked[i].waitsBefore

\* C9 witness: retries exhausted; the last error differs in text from the first.
C9_Witness ==
    /\ pc = "done"
    /\ calls = cfg.MaxRetries + 1
    /\ calls >= 2
    /\ Transient(invoked[calls].err)
    /\ ret = invoked[calls].err
    /\ invoked[1].err.msg # ret.msg

\* ------------------------------------------------------------------------
\* Properties of New
\* ------------------------------------------------------------------------

\* New found no factory for a configuration, or a factory returned an error.
ConstructionFailed ==
    \/ \E i \in 1..Len(lookups) : lookups[i].factory = "none"
    \/ \E i \in 1..Len(ctorCalls) : ~ctorCalls[i].ok

\* The non-nil configurations of New's argument.
NonNilConfigs ==
    { i \in 1..Len(configs) : ~configs[i].isNil }

\* C10: New is all-or-nothing.  When a lookup misses or a factory fails, New
\* returns an error and no gateway, however many adapters it had built; a
\* gateway is returned only when every non-nil configuration was constructed;
\* and New calls Close on no adapter.
C10_NewAllOrNothing ==
    /\ (gpc = "returned" /\ ConstructionFailed) =>
            (~newRet.g /\ newRet.err.kind # "nil")
    /\ (gpc = "returned" /\ newRet.g) =>
            /\ newRet.err = NoError
            /\ Len(ctorCalls) = Cardinality(NonNilConfigs)
            /\ \A i \in 1..Len(ctorCalls) : ctorCalls[i].ok
    /\ \A a \in 1..Len(adapters) : adapters[a].closeCalls = 0

\* C10 witness: New fails after it has already built an adapter.
C10_Witness ==
    /\ gpc = "returned"
    /\ ConstructionFailed
    /\ Len(adapters) >= 1
    /\ ~newRet.g

\* C11 as stated: with a factory registered for x, New called with a single
\* configuration naming x invokes it exactly once, succeeds and has x
\* registered, whatever the factory returns.
C11_AsStated ==
    (/\ gpc = "returned"
     /\ Len(configs) = 1
     /\ ~configs[1].isNil
     /\ lookups[1].factory # "none") =>
        /\ Len(ctorCalls) = 1
        /\ ctorCalls[1].factory = lookups[1].factory
        /\ newRet.g
        /\ newRet.err = NoError
        /\ providers[configs[1].providerType] # 0

\* C11: New called with a single configuration naming provider x looks x up
\* once, invokes the factory registered for x exactly once and no other, and,
\* when the factory returns an adapter and no error, succeeds with x
\* registered in the returned gateway's map under that adapter.
C11_RegistryRoundTrip ==
    (gpc = "returned" /\ Len(configs) = 1 /\ ~configs[1].isNil) =>
        /\ Len(lookups) = 1
        /\ lookups[1].provider = configs[1].providerType
        /\ lookups[1].factory # "none" =>
              /\ Len(ctorCalls) = 1
              /\ ctorCalls[1].factory = lookups[1].factory
              /\ ctorCalls[1].provider = configs[1].providerType
              /\ ctorCalls[1].ok =>
                    /\ newRet.g
                    /\ newRet.err = NoError
                    /\ MapKeys = {configs[1].providerType}
                    /\ Len(adapters) = 1
                    /\ providers[configs[1].providerType] = 1
                    /\ adapters[1].factory = lookups[1].factory

\* C11 witness: one configuration for "stub", registered with ctorB, built.
C11_Witness ==
    /\ gpc = "returned"
    /\ Len(configs) = 1
    /\ ~configs[1].isNil
    /\ configs[1].providerType = "stub"
    /\ Len(ctorCalls) = 1
    /\ ctorCalls[1].factory = "ctorB"
    /\ newRet.g
    /\ providers["stub"] = 1

\* C12: New fails with "at least one provider must be configured" when the
\* list is empty or holds only nil entries; nil entries cause no lookup and no
\* error, and a list of nil and constructible configurations succeeds with
\* exactly the providers of its non-nil entries registered.
C12_EmptyOrNilConfigs ==
    /\ (gpc = "returned" /\ NonNilConfigs = {}) =>
            /\ ~newRet.g
            /\ newRet.err = NewError("at least one provider must be configured", "")
            /\ lookups = <<>>
    /\ (gpc = "returned" /\ NonNilConfigs # {} /\ ~ConstructionFailed) =>
            /\ newRet.g
            /\ newRet.err = NoError
            /\ Len(lookups) = Cardinality(NonNilConfigs)
            /\ MapKeys = { configs[i].providerType : i \in NonNilConfigs }

\* C12 witness: a list with a nil entry before and after a valid one succeeds.
C12_Witness ==
    /\ gpc = "returned"
    /\ Len(configs) = 3
    /\ configs[1].isNil
    /\ ~configs[2].isNil
    /\ configs[3].isNil
    /\ newRet.g
    /\ MapKeys = {configs[2].providerType}

\* ------------------------------------------------------------------------
\* Properties of the calls on a gateway
\* ------------------------------------------------------------------------

\* C13: a result returned by Generate has its Provider field equal to
\* model.Provider(), whatever the adapter wrote in it.
C13_ProviderStamped ==
    (lastOp.op = "Generate" /\ lastOp.result = "resp") =>
        lastOp.respProvider = lastOp.provider

\* C13 witness: the adapter wrote another provider in the response.
C13_Witness ==
    /\ lastOp.op = "Generate"
    /\ lastOp.result = "resp"
    /\ lastOp.adapterRet.provider \notin {"", lastOp.provider}
    /\ lastOp.respProvider = lastOp.provider

\* C14: a Generate or Health call for a provider absent from the map returns
\* the "not registered" error and no result, and the step invokes Generate,
\* Health or Close on no adapter.
C14_DispatchMiss ==
    [][ (/\ opCount' = opCount + 1
         /\ lastOp'.op \in {"Generate", "Health"}
         /\ providers[lastOp'.provider] = 0)
        => (/\ lastOp'.err = "not registered"
            /\ lastOp'.result \in {"nil", "none"}
            /\ lastOp'.adapter = 0
            /\ genCalls' = genCalls
            /\ healthCalls' = healthCalls
            /\ adapters' = adapters) ]_vars

\* C14 witness: a Health miss on a gateway whose other adapter was used before.
C14_Witness ==
    /\ lastOp.op = "Health"
    /\ lastOp.err = "not registered"
    /\ providers[lastOp.provider] = 0
    /\ \E a \in AdapterIds : genCalls[a] > 0

\* C15: every return of Generate is either a result with a nil error or no
\* result with an error, whatever the adapter returned.
C15_ResultXorError ==
    (lastOp.op = "Generate" /\ lastOp.result # "panic") =>
        \/ (lastOp.result = "resp" /\ lastOp.err = "nil")
        \/ (lastOp.result = "nil" /\ lastOp.err # "nil")

\* C15 witness: the adapter returned both a response and an error.
C15_Witness ==
    /\ lastOp.op = "Generate"
    /\ lastOp.adapterRet.resp
    /\ lastOp.adapterRet.err
    /\ lastOp.result = "nil"
    /\ lastOp.err = "adapter"

\* C16: a Close call invokes close on every adapter in the map, whichever of
\* them fail; it returns nil iff none failed, and otherwise one error that
\* names exactly the failing providers.
C16_CloseAll ==
    [][ (closeReturns' = closeReturns + 1)
        => (/\ \A p \in MapKeys :
                  adapters'[providers[p]].closeCalls
                      = adapters[providers[p]].closeCalls + 1
            /\ lastOp'.op = "Close"
            /\ (lastOp'.err = "nil") <=> (lastOp'.closeFailed = {})
            /\ lastOp'.named = lastOp'.closeFailed) ]_vars

\* C16 witness: of two adapters one failed to close, and both were closed.
C16_Witness ==
    /\ lastOp.op = "Close"
    /\ Cardinality(MapKeys) = 2
    /\ Cardinality(lastOp.closeFailed) = 1
    /\ lastOp.err = "failed to close providers"
    /\ \A p \in MapKeys : adapters[providers[p]].closeCalls = 1

\* C17: over any sequence of calls on a gateway, each adapter's close is
\* invoked at most once.
C17_CloseAtMostOnce ==
    \A a \in 1..Len(adapters) : adapters[a].closeCalls <= 1

\* C18: for every accepted configuration list every adapter a factory
\* produced is held in the gateway's map, so that after a Close every adapter
\* that was created has been closed.
C18_EveryAdapterOwned ==
    (gpc = "returned" /\ newRet.g) =>
        /\ \A a \in 1..Len(adapters) : providers[adapters[a].provider] = a
        /\ closeReturns > 0 =>
              \A a \in 1..Len(adapters) : adapters[a].closeCalls > 0

\* C19: once Close has returned, the map is empty: IsRegistered is false,
\* ListRegisteredProviders is empty and Generate or Health reach no adapter
\* that has been closed.
C19_DrainedAfterClose ==
    closeReturns > 0 =>
        /\ MapKeys = {}
        /\ (lastOp.op = "IsRegistered" => ~lastOp.found)
        /\ (lastOp.op = "List" => lastOp.listed = {})
        /\ (lastOp.op \in {"Generate", "Health"} =>
                (lastOp.err = "not registered" /\ ~lastOp.closedBefore))

\* ------------------------------------------------------------------------
\* Properties of newRateLimiter
\* ------------------------------------------------------------------------

\* A field of the effective configuration: the supplied value when non-zero,
\* the default otherwise.
OrDefault(suppliedValue, isZero, default) ==
    IF supplied.isNil \/ isZero THEN default ELSE suppliedValue

\* C20: after construction each field of the controller's configuration is
\* the supplied one when non-zero and the default (3 retries, 1s, 60s, 2.0)
\* when zero or when the configuration is nil, field by field.
C20_DefaultsFieldByField ==
    pc # "new" =>
        /\ ~cfg.isNil
        /\ cfg.MaxRetries =
              OrDefault(supplied.MaxRetries, supplied.MaxRetries = 0, 3)
        /\ cfg.InitialBackoff =
              OrDefault(supplied.InitialBackoff, supplied.InitialBackoff = 0,
                        1 * Second)
        /\ cfg.MaxBackoff =
              OrDefault(supplied.MaxBackoff, supplied.MaxBackoff = 0,
                        60 * Second)
        /\ cfg.BackoffMultiplier =
              OrDefault(supplied.BackoffMultiplier,
                        supplied.BackoffMultiplier.num = 0, Mult(2, 1))

\* C20 witness: MaxRetries and MaxBackoff left at zero, the other two set.
C20_Witness ==
    /\ pc # "new"
    /\ ~supplied.isNil
    /\ supplied.MaxRetries = 0
    /\ supplied.InitialBackoff = 500
    /\ supplied.MaxBackoff = 0
    /\ supplied.BackoffMultiplier = Mult(1, 2)
    /\ cfg.MaxRetries = 3
    /\ cfg.InitialBackoff = 500
    /\ cfg.MaxBackoff = 60 * Second
    /\ cfg.BackoffMultiplier = Mult(1, 2)

\* ------------------------------------------------------------------------
\* Further properties of newRateLimiter and Execute
\* ------------------------------------------------------------------------

\* C21: building a retry controller from a caller-supplied configuration
\* leaves every field of the caller's configuration object as the caller
\* wrote it.
C21_CallerConfigUnchanged ==
    pc # "new" => CallerConfig(supplied, cfg) = supplied

\* The smaller of two durations.
MinDuration(a, b) ==
    IF a < b THEN a ELSE b

\* b_(k+1) for b_k = b: min(b * BackoffMultiplier, MaxBackoff), in whole
\* duration units.
NextNominal(b) ==
    MinDuration(Trunc(b * cfg.BackoffMultiplier.num, cfg.BackoffMultiplier.den),
                cfg.MaxBackoff)

\* The error's text carries no retry-after hint.
NoHint(err) ==
    ~WrittenHint[err.msg].has

\* The duration d lies within [0.75 * b, 1.25 * b].
InJitterBand(d, b) ==
    3 * b <= 4 * d /\ 4 * d <= 5 * b

\* C26: the nominal backoffs of the waits of one Execute call are
\* b_0 = InitialBackoff and b_(k+1) = min(b_k * BackoffMultiplier, MaxBackoff);
\* the wait after a transient error without a retry-after hint lies within
\* [0.75 * b_k, 1.25 * b_k], and the sum of two such waits within the bands
\* of b_0 and b_1.
C26_JitterBand ==
    /\ \A i \in 1..Len(waits) :
          /\ waits[i].nominal =
                IF i = 1 THEN cfg.InitialBackoff
                ELSE NextNominal(waits[i - 1].nominal)
          /\ NoHint(waits[i].err) => InJitterBand(waits[i].dur, waits[i].nominal)
    /\ (Len(waits) >= 2 /\ NoHint(waits[1].err) /\ NoHint(waits[2].err)) =>
          InJitterBand(waits[1].dur + waits[2].dur,
                       cfg.InitialBackoff + NextNominal(cfg.InitialBackoff))

\* C26 witness: two waits without a hint, the first below and the second
\* above its nominal backoff, the nominal backoff having grown.
C26_Witness ==
    /\ Len(waits) >= 2
    /\ NoHint(waits[1].err)
    /\ NoHint(waits[2].err)
    /\ waits[1].dur < waits[1].nominal
    /\ waits[2].dur > waits[2].nominal
    /\ waits[2].nominal > waits[1].nominal

\* C28: Execute returns nil only after at least one invocation of the
\* operation, the last of which returned no error.
C28_SuccessNeedsInvocation ==
    (pc = "done" /\ ret = NilErr) =>
        /\ calls >= 1
        /\ invoked[calls].err = NilErr

\* C29: no wait before a retry is longer than 1.25 * MaxBackoff, whether it
\* comes from the jittered backoff or from a retry-after hint.
C29_WaitCapped ==
    \A i \in 1..Len(waits) : 4 * waits[i].dur <= 5 * cfg.MaxBackoff

\* ------------------------------------------------------------------------
\* Properties of Gateway.Generate down to the vendor
\* ------------------------------------------------------------------------

\* C23: for every adapter, a 429 answer of the vendor reaches the retry
\* controller as a transient error, and, retries being left and the context
\* live, the request is sent again before Generate returns.
C23_RateLimitedIsRetried ==
    \A i \in 1..Len(vendorLog) :
        vendorLog[i] = 429 =>
            /\ Transient(invoked[i].err)
            /\ (/\ e2e.pc = "returned"
                /\ ~ctxDone
                /\ invoked[i].attempt < cfg.MaxRetries) => calls > i

\* The closure's runs so far follow the scenario: the first two fail with an
\* error for a 429 answer, the third succeeds.
FailsTwiceThenSucceeds ==
    /\ calls <= 3
    /\ \A i \in 1..calls :
          IF i <= 2
          THEN vendorLog[i] = 429 /\ invoked[i].err.kind = "op"
          ELSE vendorLog[i] = 200 /\ invoked[i].err = NilErr

C25_ContextErrorAsIs ==
    (e2e.pc = "returned" /\ ret = CtxErr) =>
        /\ e2e.result = "nil"
        /\ e2e.err = SameError(CtxErr)

\* ------------------------------------------------------------------------
\* Properties of the gateway's lock
\* ------------------------------------------------------------------------

\* C22: a thread whose Generate or Health is in its adapter call holds no
\* lock on g.mu, so that whenever every thread is in an adapter call, waiting
\* for the lock or outside the methods, the mutex is free for a Close or
\* another Generate to take.
C22_NoLockDuringAdapterCall ==
    /\ \A t \in Threads : threads[t].pc = "call" => HeldBy(t) = "none"
    /\ (\A t \in Threads : threads[t].pc \in {"idle", "waiting", "call", "done"})
          => mu = FreeMutex

\* C22 witness: Close holds the write lock while a Generate of another thread
\* is in its adapter call.
C22_Witness ==
    \E t, u \in Threads :
        /\ threads[t].pc = "call"
        /\ threads[t].op = "Generate"
        /\ threads[u].op = "Close"
        /\ threads[u].pc = "accessed"
        /\ mu.writer = u

\* The methods that only read g.providers.
ReadingMethods ==
    {"Generate", "Health", "IsRegistered", "ListRegisteredProviders"}

\* C27 as stated: the insertions made by New and every access made by Close
\* happen with the write lock held, the reads of the other methods with the
\* read lock held.
C27_AsStated ==
    /\ (mapAccess.who = "New" /\ mapAccess.kind = "write")
          => mapAccess.held = "write"
    /\ mapAccess.who = "Close" => mapAccess.held = "write"
    /\ mapAccess.who \in ReadingMethods => mapAccess.held = "read"

\* C27: every access Close makes to the map happens with the write lock
\* held and every read by Generate, Health, IsRegistered and
\* ListRegisteredProviders with the read lock held; New inserts with no lock
\* held, while no other thread can have the gateway: until New has returned,
\* no thread is in a method and the mutex is free.
C27_MapAccessLocks ==
    /\ mapAccess.who = "New"
          => (mapAccess.held = "none" /\ mapAccess.unpublished)
    /\ gpc # "returned" => (Unpublished /\ mu = FreeMutex)
    /\ mapAccess.who = "Close" => mapAccess.held = "write"
    /\ mapAccess.who \in ReadingMethods => mapAccess.held = "read"

\* C27 witness: after New filled the map, Close ranges over it under the
\* write lock while another thread's adapter call is in progress.
C27_Witness ==
    /\ Cardinality(MapKeys) = 2
    /\ mapAccess = [who |-> "Close", kind |-> "read", held |-> "write",
                    unpublished |-> FALSE]
    /\ \E t \in Threads : threads[t].pc = "call"

\* ------------------------------------------------------------------------
\* Properties of concurrent Execute calls
\* ------------------------------------------------------------------------

\* C30: each of the concurrent Execute calls on one controller counts its
\* own attempts and keeps its own nominal backoff: whatever the other calls
\* do, its invocations number at most MaxRetries + 1, one per wait it began
\* plus at most one, its attempt counter is the number of its own waits that
\* elapsed,
\* and its nominal backoffs are InitialBackoff, then each the previous one
\* times BackoffMultiplier capped at MaxBackoff.
C30_CallsIndependent ==
    \A c \in Calls :
        LET e == execs[c]
        IN  /\ e.n <= AttemptBound
            /\ Len(e.nominals) <= e.n
            /\ e.n <= Len(e.nominals) + 1
            /\ e.attempt <= Len(e.nominals)
            /\ Len(e.nominals) <= e.attempt + 1
            /\ e.pc \in {"loop", "call"} => e.attempt = Len(e.nominals)
            /\ \A i \in 1..Len(e.nominals) :
                  e.nominals[i] =
                     IF i = 1 THEN cfg.InitialBackoff
                     ELSE NextNominal(e.nominals[i - 1])

\* C30 witness: one call was cancelled during its first wait while another
\* went through two waits and succeeded.
C30_Witness ==
    \E c, d \in Calls :
        /\ execs[c].pc = "done"
        /\ execs[c].ret = CtxErr
        /\ execs[c].n = 1
        /\ Len(execs[c].nominals) = 1
        /\ execs[d].pc = "done"
        /\ execs[d].ret = NilErr
        /\ execs[d].n = 3
        /\ Len(execs[d].nominals) = 2
        /\ execs[d].nominals[2] > execs[d].nominals[1]

====
